---- MODULE Spec2Model ----
(***************************************************************************)
(* PII anonymizer core of pdf-pii-anonymizer: PIIDetector.detect and the   *)
(* PIIAnonymizer rewrite paths (anonymize, anonymize_text,                 *)
(* get_replacement_mapping, anonymize_with_mapping, _generate_replacement).*)
(* Texts are TLA+ strings; offsets are Python's 0-based half-open offsets. *)
(***************************************************************************)
EXTENDS Integers, Sequences, FiniteSets, TLC

VARIABLES
    text,             \* DetectionResult.text / the text argument
    matches,          \* DetectionResult.matches / the matches argument
    total_pii_count,  \* DetectionResult.total_pii_count
    pii_types_found,  \* DetectionResult.pii_types_found
    score_threshold,  \* PIIDetector.score_threshold, in hundredths
    analyzer,         \* PIIDetector.analyzer: "loaded" or "None"
    recognized,       \* what the analyzer's recognizers find in the text
    faker,            \* per PIIAnonymizer instance: its Faker generator
    global_random,    \* faker.generator.random, the module-level shared Random
    outputs,          \* per instance: the calls of _generate_replacement so far
    pc,               \* position of the running call
    method,           \* the method called last
    sorted_matches,   \* the part of sorted_matches the loop has still to visit
    anonymized_text,  \* the loop's working text
    replacements,     \* the loop's ledger
    result,           \* the value the call returned
    raised,           \* the exception the call raised ("" when none)
    mapping,          \* a replacement mapping: (original, replacement) entries
    threads,          \* per thread running anonymize: its arguments and locals
    context_window    \* the context_window argument of detect_with_context

detectionVars == <<text, matches, total_pii_count, pii_types_found>>
detectorVars == <<score_threshold, analyzer, recognized>>
fakerVars == <<faker, global_random, outputs>>
loopVars == <<sorted_matches, anonymized_text, replacements>>

vars == <<detectionVars, detectorVars, fakerVars, loopVars, pc, method, result,
          raised, mapping, threads, context_window>>

(***************************************************************************)
(* Bounds of the model.                                                    *)
(***************************************************************************)
MaxMatches == 2
MaxCalls == 2
MaxResults == 2
MaxMapMatches == 3
MaxMapEntries == 2

(***************************************************************************)
(* Python string and list primitives.                                      *)
(***************************************************************************)
Min(a, b) == IF a < b THEN a ELSE b
Max(a, b) == IF a > b THEN a ELSE b

\* A slice bound as Python normalises it: negative counts from the end, and
\* the result is clamped to 0..len.
SliceIndex(i, n) == IF i < 0 THEN Max(i + n, 0) ELSE Min(i, n)

\* s[lo:hi]
Slice(s, lo, hi) ==
    LET a == SliceIndex(lo, Len(s))
        b == SliceIndex(hi, Len(s))
    IN  IF a >= b THEN SubSeq(s, 1, 0) ELSE SubSeq(s, a + 1, b)

\* s[:hi]
SliceTo(s, hi) == Slice(s, 0, hi)

\* s[lo:]
SliceFrom(s, lo) == Slice(s, lo, Len(s))

\* list.reverse()
Reverse(seq) == [k \in 1..Len(seq) |-> seq[Len(seq) + 1 - k]]

\* list.sort(key=lambda m: m.start): stable ascending.
RECURSIVE SortedByStart(_)
SortedByStart(seq) ==
    IF seq = <<>> THEN <<>>
    ELSE LET init == SortedByStart(SubSeq(seq, 1, Len(seq) - 1))
             x    == seq[Len(seq)]
             n    == Cardinality({k \in 1..Len(init) : init[k].start <= x.start})
         IN  SubSeq(init, 1, n) \o <<x>> \o SubSeq(init, n + 1, Len(init))

\* Mutant of SortedByStartDesc: the reverse=True is lost.
SortedAscendingInstead(seq) == SortedByStart(seq)

\* No sort: the matches are taken in the order they were given in.
SortedAsGiven(seq) == seq

\* list.sort(key=lambda m: m.start, reverse=True) on the argument itself: the
\* caller's list is put in the new order.
ArgumentAfterSortInPlace(seq) == Reverse(SortedByStart(Reverse(seq)))

\* sorted(seq, ...) builds a new list: the list it is given keeps its order.
ArgumentAfterSorted(seq) == seq

\* sorted(seq, key=lambda m: m.start, reverse=True): stable, so records with
\* equal start keep their input order.
RECURSIVE SortedByStartDesc(_)
SortedByStartDesc(seq) ==
    IF seq = <<>> THEN <<>>
    ELSE LET init == SortedByStartDesc(SubSeq(seq, 1, Len(seq) - 1))
             x    == seq[Len(seq)]
             n    == Cardinality({k \in 1..Len(init) : init[k].start >= x.start})
         IN  SubSeq(init, 1, n) \o <<x>> \o SubSeq(init, n + 1, Len(init))

(***************************************************************************)
(* The Faker generator: a seeded pseudo-random stream.  A Random is the    *)
(* seed it was last seeded with and the number of draws made since; the    *)
(* value of a draw is a fixed function of both.                            *)
(***************************************************************************)
Inst == {1, 2}
Seeds == {42, 123}
\* What the shared Random is seeded with at import, from the OS.
EntropySeeds == {7, 42}

Seeded(seed) == [seed |-> seed, pos |-> 0]
Bits(rng) == rng.seed * 3 + rng.pos * 5 + rng.seed * rng.pos
AdvanceBy(rng, k) == [rng EXCEPT !.pos = @ + k]
Pick(pool, bits) == pool[(bits % Len(pool)) + 1]

RECURSIVE Repeat(_, _)
Repeat(c, n) == IF n <= 0 THEN SubSeq(c, 1, 0) ELSE c \o Repeat(c, n - 1)

\* Faker providers, each a function of the bits one draw gives.
FakerName(b) == Pick(<<"Al", "Bo Li", "C">>, b)
FakerEmail(b) == Pick(<<"a@x.io", "bo@y.org">>, b)
FakerPhoneNumber(b) == Pick(<<"555-0100", "(555)0101">>, b)
FakerSsn(b) == Pick(<<"111-22-3333", "444-55-6666">>, b)
FakerCreditCardNumber(b) == Pick(<<"4000000000000002", "340000000000009">>, b)
FakerBban(b) == Pick(<<"AAAA00000000", "BBBB11111111">>, b)
FakerIpv4(b) == Pick(<<"10.0.0.1", "192.168.10.20">>, b)
FakerCity(b) == Pick(<<"Ames", "Lake Ida">>, b)
FakerStateAbbr(b) == Pick(<<"IA", "NY">>, b)
FakerDate(b) == Pick(<<"1999-01-02", "2010-11-12">>, b)
FakerUrl(b) == Pick(<<"http://x.io/", "https://www.y.org/">>, b)
FakerLicensePlate(b) == Pick(<<"ABC 123", "9XY-Z88">>, b)
FakerAddress(b) == Pick(<<"1 A St\nAmes, IA 50010", "22 B Rd\nLake Ida, NY 10001">>, b)
FakerDateOfBirth(b) == Pick(<<"01/02/1980", "11/12/1957">>, b)
FakerLastName(b) == Pick(<<"Li", "Smith">>, b)
FakerCountry(b) == Pick(<<"Chad", "Peru">>, b)
FakerIban(b) == Pick(<<"GB00AAAA00000000000000", "DE00111111111111111111">>, b)
FakerRandomUppercaseLetter(b) == Pick(<<"A", "K", "Z">>, b)
FakerRandomInt(b, lo, hi) == lo + (b % (hi - lo + 1))
FakerRandomElement(chars, b) ==
    SubSeq(chars, (b % Len(chars)) + 1, (b % Len(chars)) + 1)
\* random_number(digits=n, fix_len=True): n digits, the first not 0.
FakerRandomNumber(b, digits) ==
    Pick(<<"1", "5", "9">>, b) \o Repeat(Pick(<<"0", "3", "7">>, b), digits - 1)

\* str(int) of a two-digit number, as f"{group:02d}" prints 70..99.
TwoDigits(n) ==
    LET d == <<"0", "1", "2", "3", "4", "5", "6", "7", "8", "9">>
    IN  d[((n \div 10) % 10) + 1] \o d[(n % 10) + 1]

\* str.replace("\n", ", ") on an address: every line break becomes ", ".
RECURSIVE ReplaceNewlines(_)
ReplaceNewlines(s) ==
    IF Len(s) = 0 THEN s
    ELSE (IF SubSeq(s, 1, 1) = "\n" THEN ", " ELSE SubSeq(s, 1, 1))
         \o ReplaceNewlines(SubSeq(s, 2, Len(s)))

\* The bits of n successive draws from the Random rng.
Draws(rng, n) == [k \in 1..n |-> Bits(AdvanceBy(rng, k - 1))]

\* The generators of the class, each a function of the bits d of the draws
\* its provider calls make, in the order it makes them.
_generate_drivers_license(d) ==
    FakerRandomUppercaseLetter(d[1]) \o FakerRandomNumber(d[2], 7)

_generate_itin(d) ==
    "9" \o TwoDigits(FakerRandomInt(d[1], 70, 99)) \o "-" \o FakerRandomNumber(d[2], 4)

_generate_passport_number(d) == FakerRandomNumber(d[1], 9)

_generate_state_id(d) ==
    FakerRandomUppercaseLetter(d[1]) \o FakerRandomNumber(d[2], 8)

_generate_health_insurance_id(d) ==
    FakerRandomUppercaseLetter(d[1]) \o FakerRandomUppercaseLetter(d[2])
        \o FakerRandomUppercaseLetter(d[3]) \o FakerRandomNumber(d[4], 10)

VinLength == 17
VinChars == "ABCDEFGHJKLMNPRSTUVWXYZ0123456789"
RECURSIVE VinFrom(_)
VinFrom(d) ==
    IF d = <<>> THEN ""
    ELSE FakerRandomElement(VinChars, Head(d)) \o VinFrom(Tail(d))

_generate_vin(d) == VinFrom(d)

\* Mutant of GeneratorTypes: the table has no generator for NRP.
GeneratorTypesWithoutNRP ==
    {"PERSON", "EMAIL_ADDRESS", "PHONE_NUMBER", "US_SSN", "US_DRIVER_LICENSE",
     "CREDIT_CARD", "US_BANK_NUMBER", "US_ITIN", "IP_ADDRESS", "LOCATION",
     "DATE_TIME", "URL", "US_PASSPORT", "STATE_ID", "MEDICAL_RECORD",
     "HEALTH_INSURANCE_ID", "EMPLOYEE_ID", "STUDENT_ID", "MILITARY_ID",
     "VEHICLE_REGISTRATION", "LICENSE_PLATE", "CREDENTIALS", "US_ADDRESS",
     "DATE_OF_BIRTH", "MOTHERS_MAIDEN_NAME", "FINANCIAL_ACCOUNT",
     "MEDICAL_LICENSE", "IBAN_CODE"}

\* The keys of the table _build_replacement_generators returns.
GeneratorTypes ==
    {"PERSON", "EMAIL_ADDRESS", "PHONE_NUMBER", "US_SSN", "US_DRIVER_LICENSE",
     "CREDIT_CARD", "US_BANK_NUMBER", "US_ITIN", "IP_ADDRESS", "LOCATION",
     "DATE_TIME", "URL", "US_PASSPORT", "STATE_ID", "MEDICAL_RECORD",
     "HEALTH_INSURANCE_ID", "EMPLOYEE_ID", "STUDENT_ID", "MILITARY_ID",
     "VEHICLE_REGISTRATION", "LICENSE_PLATE", "CREDENTIALS", "US_ADDRESS",
     "DATE_OF_BIRTH", "MOTHERS_MAIDEN_NAME", "FINANCIAL_ACCOUNT", "NRP",
     "MEDICAL_LICENSE", "IBAN_CODE"}

\* The number of draws the generator registered for the type makes: one for
\* each provider call.
DrawCount(t) ==
    CASE t = "CREDENTIALS" -> 0
      [] t \in {"LOCATION", "US_DRIVER_LICENSE", "US_ITIN", "STATE_ID"} -> 2
      [] t = "HEALTH_INSURANCE_ID" -> 4
      [] t = "VEHICLE_REGISTRATION" -> VinLength
      [] OTHER -> 1

\* Calling the table's generator for a registered type: the value it builds
\* from the bits d of its draws.
_build_replacement_generators(t, d) ==
    CASE t = "PERSON" -> FakerName(d[1])
      [] t = "EMAIL_ADDRESS" -> FakerEmail(d[1])
      [] t = "PHONE_NUMBER" -> FakerPhoneNumber(d[1])
      [] t = "US_SSN" -> FakerSsn(d[1])
      [] t = "US_DRIVER_LICENSE" -> _generate_drivers_license(d)
      [] t = "CREDIT_CARD" -> FakerCreditCardNumber(d[1])
      [] t = "US_BANK_NUMBER" -> FakerBban(d[1])
      [] t = "US_ITIN" -> _generate_itin(d)
      [] t = "IP_ADDRESS" -> FakerIpv4(d[1])
      [] t = "LOCATION" -> FakerCity(d[1]) \o ", " \o FakerStateAbbr(d[2])
      [] t = "DATE_TIME" -> FakerDate(d[1])
      [] t = "URL" -> FakerUrl(d[1])
      [] t = "US_PASSPORT" -> _generate_passport_number(d)
      [] t = "STATE_ID" -> _generate_state_id(d)
      [] t = "MEDICAL_RECORD" -> "MRN" \o FakerRandomNumber(d[1], 8)
      [] t = "HEALTH_INSURANCE_ID" -> _generate_health_insurance_id(d)
      [] t = "EMPLOYEE_ID" -> "EMP" \o FakerRandomNumber(d[1], 6)
      [] t = "STUDENT_ID" -> "STU" \o FakerRandomNumber(d[1], 8)
      [] t = "MILITARY_ID" -> FakerRandomNumber(d[1], 10)
      [] t = "VEHICLE_REGISTRATION" -> _generate_vin(d)
      [] t = "LICENSE_PLATE" -> FakerLicensePlate(d[1])
      [] t = "CREDENTIALS" -> "[REDACTED_CREDENTIALS]"
      [] t = "US_ADDRESS" -> ReplaceNewlines(FakerAddress(d[1]))
      [] t = "DATE_OF_BIRTH" -> FakerDateOfBirth(d[1])
      [] t = "MOTHERS_MAIDEN_NAME" -> FakerLastName(d[1])
      [] t = "FINANCIAL_ACCOUNT" -> FakerBban(d[1])
      [] t = "NRP" -> FakerCountry(d[1])
      [] t = "MEDICAL_LICENSE" -> "ML" \o FakerRandomNumber(d[1], 8)
      [] t = "IBAN_CODE" -> FakerIban(d[1])

\* The draws one call of _generate_replacement makes: those of the type's
\* generator, none for the fallback.
DrawsNeeded(entity_type) ==
    IF entity_type \in GeneratorTypes THEN DrawCount(entity_type) ELSE 0

\* Mutant of ReplacementFrom: the fallback drops the entity type.
ReplacementFromBarePlaceholder(entity_type, d) ==
    IF entity_type \in GeneratorTypes
    THEN _build_replacement_generators(entity_type, d)
    ELSE "[REDACTED]"

\* The value _generate_replacement(entity_type) returns when its draws gave
\* the bits d: the generator's value, or the fallback placeholder.
ReplacementFrom(entity_type, d) ==
    IF entity_type \in GeneratorTypes
    THEN _build_replacement_generators(entity_type, d)
    ELSE "[REDACTED_" \o entity_type \o "]"

\* _generate_replacement(entity_type) on the Random rng, run without
\* interruption: the value and the Random after the draws.
_generate_replacement(entity_type, rng) ==
    [value |-> ReplacementFrom(entity_type, Draws(rng, DrawsNeeded(entity_type))),
     rng   |-> AdvanceBy(rng, DrawsNeeded(entity_type))]

\* The Random an instance draws from: its own once seed_instance was called,
\* the shared one otherwise.
RandomOf(fk, shared) == IF fk.own THEN fk.rng ELSE shared

(***************************************************************************)
(* PIIAnonymizer.__init__ and the Faker seeding it does.                   *)
(***************************************************************************)
\* An instance: whether it was constructed, with which seed argument (seeded
\* is FALSE for seed=None), and its generator: whether it has a Random of its
\* own, and that Random.
Unbuilt == [built |-> FALSE, seeded |-> FALSE, seed |-> 0, own |-> FALSE,
            rng |-> Seeded(0)]

\* Faker.seed(seed): reseeds the shared Random.
FakerSeed(shared, seed) == Seeded(seed)

\* Mutant of FakerSeedInstance: the instance keeps drawing from the shared
\* Random.
FakerSeedInstanceNotOwn(fk, seed) == fk

\* self.faker.seed_instance(seed): gives the instance a Random of its own.
FakerSeedInstance(fk, seed) == [fk EXCEPT !.own = TRUE, !.rng = Seeded(seed)]

\* PIIAnonymizer(seed=seed) when seeded, PIIAnonymizer() otherwise: the new
\* instance's faker and the shared Random afterwards.
PIIAnonymizerInit(seeded, seed, shared) ==
    LET fk == [built |-> TRUE, seeded |-> seeded, seed |-> IF seeded THEN seed ELSE 0,
               own |-> FALSE, rng |-> Seeded(0)]
    IN  IF seeded
        THEN [faker |-> FakerSeedInstance(fk, seed), shared |-> FakerSeed(shared, seed)]
        ELSE [faker |-> fk, shared |-> shared]

\* One call of _generate_replacement, as outputs records it.
Call(entity_type, value) == [entity_type |-> entity_type, value |-> value]

\* _generate_replacement on instance i: the value, and the instance's faker
\* and the shared Random after the draws.
GenerateOn(fk, shared, entity_type) ==
    LET g == _generate_replacement(entity_type, RandomOf(fk, shared))
    IN  [value  |-> g.value,
         faker  |-> IF fk.own THEN [fk EXCEPT !.rng = g.rng] ELSE fk,
         shared |-> IF fk.own THEN shared ELSE g.rng]

(***************************************************************************)
(* DetectionResult and PIIMatch.                                           *)
(***************************************************************************)
PIIMatch(entity_type, matched, start, end, score) ==
    [entity_type |-> entity_type, text |-> matched, start |-> start,
     end |-> end, score |-> score]

\* DetectionResult.has_pii
has_pii(count) == count > 0

EntityTypesOf(ms) == {ms[k].entity_type : k \in 1..Len(ms)}

(***************************************************************************)
(* PIIAnonymizer.anonymize and PIIAnonymizer.anonymize_text.               *)
(***************************************************************************)
NoResult == [kind |-> "none"]

\* Mutant of EmptyResult: the early return hands back an empty text.
EmptyResultBlank(t) ==
    [original_text |-> t, anonymized_text |-> "", replacements |-> <<>>,
     total_replacements |-> 0]

\* The result of the early return of anonymize.
EmptyResult(t) ==
    [original_text |-> t, anonymized_text |-> t, replacements |-> <<>>,
     total_replacements |-> 0]

\* The ledger entry anonymize builds for one match.
ReplacementInfo(match, fake_value) ==
    [entity_type |-> match.entity_type,
     original_value |-> match.text,
     replacement_value |-> fake_value,
     position |-> [start |-> match.start, end |-> match.end],
     confidence_score |-> match.score]

\* Mutant of Rewrite: the tail is taken after the value's length, not at the
\* match's end.
RewriteSkipsValueLength(working, match, fake_value) ==
    SliceTo(working, match.start) \o fake_value
        \o SliceFrom(working, match.start + Len(fake_value))

\* working[: match.start] + fake_value + working[match.end :]
Rewrite(working, match, fake_value) ==
    SliceTo(working, match.start) \o fake_value \o SliceFrom(working, match.end)

\* Mutant of AnonymizationResult: the ledger is not reversed.
AnonymizationResultUnreversed(t, working, ledger) ==
    [original_text |-> t, anonymized_text |-> working,
     replacements |-> ledger, total_replacements |-> Len(ledger)]

\* The AnonymizationResult anonymize returns after its loop.
AnonymizationResult(t, working, ledger) ==
    LET reversed == Reverse(ledger)
    IN  [original_text |-> t, anonymized_text |-> working,
         replacements |-> reversed, total_replacements |-> Len(reversed)]

\* anonymize(detection_result) is called on instance 1, on a DetectionResult
\* the caller built or detect returned.
CallAnonymize ==
    /\ pc \in {"idle", "detected"}
    /\ method' = "anonymize"
    /\ IF ~has_pii(total_pii_count)
       THEN /\ result' = EmptyResult(text)
            /\ pc' = "done"
            /\ UNCHANGED loopVars
       ELSE /\ sorted_matches' = SortedByStartDesc(matches)
            /\ anonymized_text' = text
            /\ replacements' = <<>>
            /\ pc' = "loop"
            /\ UNCHANGED result
    /\ matches' = ArgumentAfterSorted(matches)
    /\ UNCHANGED <<text, total_pii_count, pii_types_found>>
    /\ UNCHANGED <<detectorVars, fakerVars, raised, mapping>>
    /\ UNCHANGED threads
    /\ UNCHANGED context_window

\* anonymize_text(text, matches) is called on instance 1.
CallAnonymizeText ==
    /\ pc = "idle"
    /\ method' = "anonymize_text"
    /\ IF matches = <<>>
       THEN /\ result' = [value |-> text]
            /\ pc' = "done"
            /\ UNCHANGED <<sorted_matches, anonymized_text>>
       ELSE /\ sorted_matches' = SortedByStartDesc(matches)
            /\ anonymized_text' = text
            /\ pc' = "loop"
            /\ UNCHANGED result
    /\ UNCHANGED <<detectionVars, detectorVars, fakerVars, replacements, raised,
                   mapping>>
    /\ UNCHANGED threads
    /\ UNCHANGED context_window

\* One iteration of the rewrite loop of either method.
LoopStep ==
    /\ pc = "loop"
    /\ sorted_matches # <<>>
    /\ LET match == Head(sorted_matches)
           g     == GenerateOn(faker[1], global_random, match.entity_type)
       IN  /\ faker' = [faker EXCEPT ![1] = g.faker]
           /\ global_random' = g.shared
           /\ outputs' = [outputs EXCEPT ![1] = Append(@, Call(match.entity_type, g.value))]
           /\ replacements' =
                 IF method = "anonymize"
                 THEN Append(replacements, ReplacementInfo(match, g.value))
                 ELSE replacements
           /\ anonymized_text' = Rewrite(anonymized_text, match, g.value)
    /\ sorted_matches' = Tail(sorted_matches)
    /\ UNCHANGED <<detectionVars, detectorVars, pc, method, result, raised, mapping>>
    /\ UNCHANGED threads
    /\ UNCHANGED context_window

\* The loop is over: the method returns.
Return ==
    /\ pc = "loop"
    /\ sorted_matches = <<>>
    /\ result' = IF method = "anonymize"
                 THEN AnonymizationResult(text, anonymized_text, replacements)
                 ELSE [value |-> anonymized_text]
    /\ pc' = "done"
    /\ UNCHANGED <<detectionVars, detectorVars, fakerVars, loopVars, method,
                   raised, mapping>>
    /\ UNCHANGED threads
    /\ UNCHANGED context_window

(***************************************************************************)
(* Spec: one call of anonymize or anonymize_text on a seeded anonymizer,   *)
(* for every text and match list within the bounds.                        *)
(***************************************************************************)
AnonTexts == {"", "abcd"}
AnonTypes == {"PERSON", "UNKNOWN_TYPE", "ORGANIZATION"}
AnonScore == 85
DefaultThreshold == 50
DefaultContextWindow == 50
FixtureSeed == 42

\* Matches a caller can hand over: any span, in range or not.
SpansOver(t) ==
    {<<s, e>> \in (0..Len(t)) \X (1..(Len(t) + 1)) : s < e}

MatchesOver(t) ==
    {PIIMatch(ty, Slice(t, sp[1], sp[2]), sp[1], sp[2], AnonScore) :
        ty \in AnonTypes, sp \in SpansOver(t)}

RECURSIVE SeqsUpTo(_, _)
SeqsUpTo(S, n) ==
    IF n = 0 THEN {<<>>}
    ELSE LET shorter == SeqsUpTo(S, n - 1)
         IN  shorter \cup {Append(q, x) : q \in shorter, x \in S}

Init ==
    /\ text \in AnonTexts
    /\ matches \in SeqsUpTo(MatchesOver(text), MaxMatches)
    /\ total_pii_count = Len(matches)
    /\ pii_types_found = EntityTypesOf(matches)
    /\ score_threshold = DefaultThreshold
    /\ analyzer = "None"
    /\ recognized = <<>>
    /\ LET built == PIIAnonymizerInit(TRUE, FixtureSeed, Seeded(FixtureSeed))
       IN  /\ faker = [i \in Inst |-> IF i = 1 THEN built.faker ELSE Unbuilt]
           /\ global_random = built.shared
    /\ pc = "idle"
    /\ method = ""
    /\ sorted_matches = <<>>
    /\ anonymized_text = ""
    /\ replacements = <<>>
    /\ result = NoResult
    /\ raised = ""
    /\ mapping = <<>>
    /\ outputs = [i \in Inst |-> <<>>]
    /\ threads = <<>>
    /\ context_window = DefaultContextWindow

Next ==
    \/ CallAnonymize
    \/ CallAnonymizeText
    \/ LoopStep
    \/ Return

Spec == Init /\ [][Next]_vars

(***************************************************************************)
(* Properties of anonymize and anonymize_text, checked under Spec.         *)
(***************************************************************************)
InRange(t, m) == 0 <= m.start /\ m.start < m.end /\ m.end <= Len(t)

Disjoint(m, n) == m.end <= n.start \/ n.end <= m.start

\* The matches lie inside t and no two of them overlap.
ValidMatches(t, ms) ==
    /\ \A k \in 1..Len(ms) : InRange(t, ms[k])
    /\ \A j, k \in 1..Len(ms) : j # k => Disjoint(ms[j], ms[k])

\* The number of matches that start after match m: its place in the order
\* the replacement values were drawn in.
DrawIndex(ms, m) == Cardinality({k \in 1..Len(ms) : ms[k].start > m.start}) + 1

\* t with every span of spans (ascending, [start, end, value]) replaced by
\* its value, read left to right from offset p.
RECURSIVE Spliced(_, _, _)
Spliced(t, p, spans) ==
    IF spans = <<>> THEN SubSeq(t, p + 1, Len(t))
    ELSE SubSeq(t, p + 1, Head(spans).start) \o Head(spans).value
         \o Spliced(t, Head(spans).end, Tail(spans))

\* The spans of ms in document order, each with the value drawn for it.
SpansWithValues(ms, values) ==
    LET asc == SortedByStart(ms)
    IN  [k \in 1..Len(asc) |->
            [start |-> asc[k].start, end |-> asc[k].end,
             value |-> values[DrawIndex(ms, asc[k])].value]]

AnonymizeDone == pc = "done" /\ method = "anonymize"
AnonymizeTextDone == pc = "done" /\ method = "anonymize_text"

\* C1: for non-overlapping matches inside the text, anonymize and
\* anonymize_text return the text with exactly each span replaced by the
\* value generated for that match, everything else verbatim and in order.
C1_RewriteReplacesExactlyTheSpans ==
    (pc = "done" /\ ValidMatches(text, matches)) =>
        LET expected == Spliced(text, 0, SpansWithValues(matches, outputs[1]))
        IN  /\ Len(outputs[1]) = Len(matches)
            /\ method = "anonymize" =>
                  /\ result.anonymized_text = expected
                  /\ \A k \in 1..Len(result.replacements) :
                        result.replacements[k].replacement_value
                            = SpansWithValues(matches, outputs[1])[k].value
            /\ method = "anonymize_text" => result.value = expected

\* Two valid matches in reverse document order, both replaced by values whose
\* length differs from the span's.
C1_Witness ==
    /\ AnonymizeDone
    /\ ValidMatches(text, matches)
    /\ Len(matches) = 2
    /\ matches[1].start > matches[2].start
    /\ \A k \in 1..2 :
          Len(result.replacements[k].replacement_value)
              # result.replacements[k].position.end
                - result.replacements[k].position.start
    /\ result.anonymized_text # text

\* The ledger record of match m.
Describes(rec, m) ==
    /\ rec.entity_type = m.entity_type
    /\ rec.original_value = m.text
    /\ rec.position = [start |-> m.start, end |-> m.end]
    /\ rec.confidence_score = m.score

\* C3: the ledger anonymize returns holds exactly one record per match, is
\* ordered ascending by the match's start whatever the input order, and
\* total_replacements is its length.
C3_LedgerOnePerMatchAscending ==
    AnonymizeDone =>
        LET ledger == result.replacements
        IN  /\ Len(ledger) = Len(matches)
            /\ \A k \in 1..Len(matches) :
                  Cardinality({j \in 1..Len(ledger) : Describes(ledger[j], matches[k])})
                      = Cardinality({j \in 1..Len(matches) : matches[j] = matches[k]})
            /\ \A k \in 1..(Len(ledger) - 1) :
                  ledger[k].position.start <= ledger[k + 1].position.start
            /\ result.total_replacements = Len(ledger)

\* Matches given in descending start order come back in ascending order.
C3_Witness ==
    /\ AnonymizeDone
    /\ Len(matches) = 2
    /\ matches[1].start > matches[2].start
    /\ result.replacements[1].position.start = matches[2].start
    /\ result.total_replacements = 2

\* The offset of ledger record k in the output: its start shifted by the
\* length changes of the records before it.
RECURSIVE ShiftBefore(_, _)
ShiftBefore(ledger, k) ==
    IF k <= 1 THEN 0
    ELSE ShiftBefore(ledger, k - 1)
         + Len(ledger[k - 1].replacement_value)
         - (ledger[k - 1].position.end - ledger[k - 1].position.start)

NewStart(ledger, k) == ledger[k].position.start + ShiftBefore(ledger, k)

\* C4: for valid matches every ledger record is found in the output at its
\* start shifted by the cumulative length change of the earlier records.
C4_LedgerLocatesReplacements ==
    (AnonymizeDone /\ ValidMatches(text, matches)) =>
        LET ledger == result.replacements
            out    == result.anonymized_text
        IN  \A k \in 1..Len(ledger) :
               /\ NewStart(ledger, k) + Len(ledger[k].replacement_value) <= Len(out)
               /\ SubSeq(out, NewStart(ledger, k) + 1,
                         NewStart(ledger, k) + Len(ledger[k].replacement_value))
                     = ledger[k].replacement_value

\* The second record sits at a shifted offset.
C4_Witness ==
    /\ AnonymizeDone
    /\ ValidMatches(text, matches)
    /\ Len(result.replacements) = 2
    /\ NewStart(result.replacements, 2) # result.replacements[2].position.start

\* C5: with no matches, anonymize returns the text unchanged, an empty ledger
\* and total_replacements 0, and anonymize_text returns the text unchanged.
C5_NoMatchesIsNoOp ==
    (pc = "done" /\ matches = <<>>) =>
        /\ method = "anonymize" =>
              /\ result.anonymized_text = text
              /\ result.original_text = text
              /\ result.replacements = <<>>
              /\ result.total_replacements = 0
        /\ method = "anonymize_text" => result.value = text
        /\ outputs[1] = <<>>

C5_Witness == AnonymizeDone /\ matches = <<>> /\ text # "" /\ result.anonymized_text = text

\* C6: anonymize re-validates its matches: a match that ends after the text,
\* or two matches that overlap, make the call fail with
\* OverlappingOrOutOfRangeMatch and no rewritten text is returned.
C6_RevalidatesMatches ==
    (AnonymizeDone /\ ~ValidMatches(text, matches)) =>
        /\ raised = "OverlappingOrOutOfRangeMatch"
        /\ result = NoResult

\* C10: a match of an entity type without a registered generator gets the
\* placeholder [REDACTED_<entity_type>], and the call completes.
C10_UnknownTypePlaceholder ==
    AnonymizeDone =>
        /\ raised = ""
        /\ \A k \in 1..Len(result.replacements) :
              result.replacements[k].entity_type \notin GeneratorTypes =>
                  result.replacements[k].replacement_value
                      = "[REDACTED_" \o result.replacements[k].entity_type \o "]"
        /\ (Len(matches) = 1 /\ ValidMatches(text, matches)
                /\ matches[1].entity_type \notin GeneratorTypes) =>
              result.anonymized_text
                  = SubSeq(text, 1, matches[1].start)
                    \o "[REDACTED_" \o matches[1].entity_type \o "]"
                    \o SubSeq(text, matches[1].end + 1, Len(text))

C10_Witness ==
    /\ AnonymizeDone
    /\ Len(matches) = 2
    /\ matches[1].entity_type = "UNKNOWN_TYPE"
    /\ matches[2].entity_type = "PERSON"
    /\ result.replacements[1].replacement_value = "[REDACTED_UNKNOWN_TYPE]"

PairwiseDisjoint(ms) == \A j, k \in 1..Len(ms) : j # k => Disjoint(ms[j], ms[k])

\* C17: the loop takes the matches in descending start order, so for matches
\* that do not overlap, whenever a match is about to be rewritten the working
\* text below that match's end is still the original text, and every match
\* not yet processed still spans, in the working text, the text it spanned in
\* the original.
C17_UnprocessedOffsetsValid ==
    (pc = "loop" /\ PairwiseDisjoint(matches)) =>
        /\ \A k \in 1..(Len(sorted_matches) - 1) :
               sorted_matches[k].start >= sorted_matches[k + 1].start
        /\ sorted_matches # <<>> =>
               SliceTo(anonymized_text, Head(sorted_matches).end)
                   = SliceTo(text, Head(sorted_matches).end)
        /\ \A k \in 1..Len(sorted_matches) :
               LET m == sorted_matches[k]
               IN  Slice(anonymized_text, m.start, m.end) = Slice(text, m.start, m.end)

\* In the middle of the loop over two non-overlapping matches: the later one
\* was rewritten by a value of another length, the earlier one is next.
C17_Witness ==
    /\ pc = "loop"
    /\ PairwiseDisjoint(matches)
    /\ Len(matches) = 2
    /\ Len(sorted_matches) = 1
    /\ Len(anonymized_text) # Len(text)
    /\ Slice(anonymized_text, Head(sorted_matches).start, Head(sorted_matches).end)
           = Head(sorted_matches).text

\* C19: anonymize leaves its inputs alone: no step of it changes the text or
\* the content or order of the matches of the DetectionResult, and the result
\* it returns carries the input text as original_text, whether a replacement
\* was made or not.
C19_InputsUnchanged ==
    /\ [][method' = "anonymize" =>
              /\ text' = text
              /\ matches' = matches
              /\ total_pii_count' = total_pii_count
              /\ pii_types_found' = pii_types_found]_vars
    /\ [](AnonymizeDone => result.original_text = text)

\* anonymize returned after replacing two matches that the caller gave in
\* ascending order, the reverse of the order the loop takes them in.
C19_Witness ==
    /\ AnonymizeDone
    /\ Len(matches) = 2
    /\ matches[1].start < matches[2].start
    /\ result.total_replacements = 2
    /\ result.anonymized_text # text
    /\ result.original_text = text

(***************************************************************************)
(* PIIDetector.detect.  The analyzer is Presidio's AnalyzerEngine: it      *)
(* gathers the recognizers' results, removes duplicates (a result equal to *)
(* or contained in a kept result of the same entity type) and drops the    *)
(* results that score below the threshold.                                 *)
(***************************************************************************)
RecognizerResult(entity_type, start, end, score) ==
    [entity_type |-> entity_type, start |-> start, end |-> end, score |-> score]

\* A blank test that only the empty string passes.
IsBlankOnlyWhenEmpty(t) == Len(t) = 0

\* The characters str.strip() removes, among those a string of the model can
\* hold: tab, line feed, vertical tab, form feed, carriage return, the
\* separators 0x1c to 0x1f, the space, and beyond ASCII the next-line
\* character U+0085, the no-break space U+00A0 and the Ogham space U+1680.
Whitespace ==
    {"\t", "\n", "", "\f", "\r", "", "", "", "", " ",
     "", " ", " "}

\* str.strip() leaves nothing: every character is whitespace.
RECURSIVE IsBlank(_)
IsBlank(t) ==
    IF Len(t) = 0 THEN TRUE
    ELSE SubSeq(t, 1, 1) \in Whitespace /\ IsBlank(SubSeq(t, 2, Len(t)))

\* The order remove_duplicates visits the results in: score descending, then
\* start ascending, then length descending.
VisitedBefore(a, b) ==
    \/ a.score > b.score
    \/ a.score = b.score /\ a.start < b.start
    \/ a.score = b.score /\ a.start = b.start /\ (a.end - a.start) >= (b.end - b.start)

RECURSIVE SortedForDuplicates(_)
SortedForDuplicates(seq) ==
    IF seq = <<>> THEN <<>>
    ELSE LET init == SortedForDuplicates(SubSeq(seq, 1, Len(seq) - 1))
             x    == seq[Len(seq)]
             n    == Cardinality({k \in 1..Len(init) : VisitedBefore(init[k], x)})
         IN  SubSeq(init, 1, n) \o <<x>> \o SubSeq(init, n + 1, Len(init))

ContainedIn(a, b) == a.start >= b.start /\ a.end <= b.end

InSeq(x, seq) == \E k \in 1..Len(seq) : seq[k] = x

RECURSIVE RemoveDuplicates(_, _)
RemoveDuplicates(sorted, kept) ==
    IF sorted = <<>> THEN kept
    ELSE LET r    == Head(sorted)
             keep == /\ r.score # 0
                     /\ ~InSeq(r, kept)
                     /\ ~\E k \in 1..Len(kept) :
                            ContainedIn(r, kept[k]) /\ r.entity_type = kept[k].entity_type
         IN  RemoveDuplicates(Tail(sorted), IF keep THEN Append(kept, r) ELSE kept)

\* A filter that keeps the wrong side of the threshold.
RECURSIVE RemoveLowScoresKeepsBelow(_, _)
RemoveLowScoresKeepsBelow(results, threshold) ==
    IF results = <<>> THEN <<>>
    ELSE (IF Head(results).score < threshold THEN <<Head(results)>> ELSE <<>>)
         \o RemoveLowScoresKeepsBelow(Tail(results), threshold)

\* A filter that also drops the results scoring exactly the threshold.
RECURSIVE RemoveLowScoresStrict(_, _)
RemoveLowScoresStrict(results, threshold) ==
    IF results = <<>> THEN <<>>
    ELSE (IF Head(results).score > threshold THEN <<Head(results)>> ELSE <<>>)
         \o RemoveLowScoresStrict(Tail(results), threshold)

RECURSIVE RemoveLowScores(_, _)
RemoveLowScores(results, threshold) ==
    IF results = <<>> THEN <<>>
    ELSE (IF Head(results).score >= threshold THEN <<Head(results)>> ELSE <<>>)
         \o RemoveLowScores(Tail(results), threshold)

\* self.analyzer.analyze(text, language, entities, score_threshold)
AnalyzerAnalyze(found, threshold) ==
    RemoveLowScores(RemoveDuplicates(SortedForDuplicates(found), <<>>), threshold)

\* A match list whose every match carries the whole text as its text.
MatchesOfWholeText(t, results) ==
    [k \in 1..Len(results) |->
        PIIMatch(results[k].entity_type, t,
                 results[k].start, results[k].end, results[k].score)]

\* The PIIMatch list detect builds from the analyzer's results, before its sort.
MatchesOf(t, results) ==
    [k \in 1..Len(results) |->
        PIIMatch(results[k].entity_type,
                 Slice(t, results[k].start, results[k].end),
                 results[k].start, results[k].end, results[k].score)]

\* A detector that never finds its analyzer missing.
AnalyzerNeverMissing(a) == FALSE

\* self.analyzer is None: the detector was built with load_spacy_model=False.
AnalyzerMissing(a) == a = "None"

\* detect(text)
Detect ==
    /\ pc = "idle"
    /\ method = ""
    /\ method' = "detect"
    /\ IF Len(text) = 0 \/ IsBlank(text)
       THEN /\ matches' = <<>>
            /\ total_pii_count' = 0
            /\ pii_types_found' = {}
            /\ pc' = "detected"
            /\ UNCHANGED raised
       ELSE IF AnalyzerMissing(analyzer)
       THEN /\ raised' = "RuntimeError"
            /\ pc' = "failed"
            /\ UNCHANGED <<matches, total_pii_count, pii_types_found>>
       ELSE LET results == AnalyzerAnalyze(recognized, score_threshold)
                found   == SortedByStart(MatchesOf(text, results))
            IN  /\ matches' = found
                /\ total_pii_count' = Len(found)
                /\ pii_types_found' = {results[k].entity_type : k \in 1..Len(results)}
                /\ pc' = "detected"
                /\ UNCHANGED raised
    /\ UNCHANGED <<text, detectorVars, fakerVars, loopVars, result, mapping>>
    /\ UNCHANGED threads
    /\ UNCHANGED context_window

\* A context that starts context_window before the match without the max.
ContextOfUnclamped(t, match, w) ==
    LET context_start == match.start - w
        context_end   == Min(Len(t), match.end + w)
    IN  [entity_type |-> match.entity_type,
         matched_text |-> match.text,
         score |-> match.score,
         position |-> [start |-> match.start, end |-> match.end],
         context |-> Slice(t, context_start, context_end),
         context_position |-> [start |-> context_start, end |-> context_end]]

\* The dictionary detect_with_context builds for one match.
ContextOf(t, match, w) ==
    LET context_start == Max(0, match.start - w)
        context_end   == Min(Len(t), match.end + w)
    IN  [entity_type |-> match.entity_type,
         matched_text |-> match.text,
         score |-> match.score,
         position |-> [start |-> match.start, end |-> match.end],
         context |-> Slice(t, context_start, context_end),
         context_position |-> [start |-> context_start, end |-> context_end]]

\* detect_with_context(text, context_window): the detect call it makes, then
\* one dictionary per match of the result.
DetectWithContext(w) ==
    /\ pc = "idle"
    /\ method = ""
    /\ method' = "detect_with_context"
    /\ context_window' = w
    /\ IF Len(text) = 0 \/ IsBlank(text)
       THEN /\ result' = [value |-> <<>>]
            /\ pc' = "done"
            /\ UNCHANGED raised
       ELSE IF AnalyzerMissing(analyzer)
       THEN /\ raised' = "RuntimeError"
            /\ pc' = "failed"
            /\ UNCHANGED result
       ELSE LET results == AnalyzerAnalyze(recognized, score_threshold)
                found   == SortedByStart(MatchesOf(text, results))
            IN  /\ result' = [value |-> [k \in 1..Len(found) |-> ContextOf(text, found[k], w)]]
                /\ pc' = "done"
                /\ UNCHANGED raised
    /\ UNCHANGED <<detectionVars, detectorVars, fakerVars, loopVars, mapping, threads>>

(***************************************************************************)
(* SpecDetect: detect on every text and every list of recognizer results   *)
(* within the bounds, followed by anonymize on what it returned.           *)
(***************************************************************************)
\* The texts are ASCII: the model checker's state queue keeps the characters
\* of a string as bytes.
DetectTexts == {"", " \n", "\r", "a1b"}
DetectTypes == {"US_PASSPORT", "STATE_ID"}
ContextWindows == {0, 1, DefaultContextWindow}

\* The scores of the recognizers' patterns: US_PASSPORT_PATTERN,
\* STATE_ID_ALPHA_NUM and STATE_ID_NUM.
PassportPatternScore == 30
StateIdAlphaNumScore == 30
StateIdNumScore == 20

\* The scores a result of the entity type can carry: those of the patterns of
\* its recognizer.
DetectScores(entity_type) ==
    IF entity_type = "US_PASSPORT" THEN {PassportPatternScore}
    ELSE {StateIdAlphaNumScore, StateIdNumScore}

Thresholds == {StateIdNumScore, PassportPatternScore, DefaultThreshold}

\* What recognizers can report on t: any span of t, the empty ones included.
ResultsOver(t) ==
    {r \in [entity_type : DetectTypes, start : 0..Len(t), end : 0..Len(t),
            score : {StateIdNumScore, StateIdAlphaNumScore, PassportPatternScore}] :
        r.start <= r.end /\ r.score \in DetectScores(r.entity_type)}

InitDetect ==
    /\ text \in DetectTexts
    /\ matches = <<>>
    /\ total_pii_count = 0
    /\ pii_types_found = {}
    /\ score_threshold \in Thresholds
    /\ analyzer \in {"loaded", "None"}
    /\ recognized \in SeqsUpTo(ResultsOver(text), MaxResults)
    /\ LET built == PIIAnonymizerInit(TRUE, FixtureSeed, Seeded(FixtureSeed))
       IN  /\ faker = [i \in Inst |-> IF i = 1 THEN built.faker ELSE Unbuilt]
           /\ global_random = built.shared
    /\ outputs = [i \in Inst |-> <<>>]
    /\ pc = "idle"
    /\ method = ""
    /\ sorted_matches = <<>>
    /\ anonymized_text = ""
    /\ replacements = <<>>
    /\ result = NoResult
    /\ raised = ""
    /\ mapping = <<>>
    /\ threads = <<>>
    /\ context_window = DefaultContextWindow

NextDetect ==
    \/ Detect
    \/ \E w \in ContextWindows : DetectWithContext(w)
    \/ CallAnonymize
    \/ LoopStep
    \/ Return

SpecDetect == InitDetect /\ [][NextDetect]_vars

Overlap(m, n) == Max(m.start, n.start) < Min(m.end, n.end)

DetectReturned == method = "detect" /\ pc = "detected"

\* C2: the match list detect returns is sorted ascending by start and no two
\* distinct matches of it have intersecting [start, end) intervals.
C2_DetectSortedNonOverlapping ==
    DetectReturned =>
        /\ \A k \in 1..(Len(matches) - 1) : matches[k].start <= matches[k + 1].start
        /\ \A j, k \in 1..Len(matches) : j # k => ~Overlap(matches[j], matches[k])

\* The half of C2 the code keeps: the list is sorted ascending by start.
C2_DetectSorted ==
    DetectReturned =>
        \A k \in 1..(Len(matches) - 1) : matches[k].start <= matches[k + 1].start

OnlyWhitespace(t) == \A k \in 1..Len(t) : SubSeq(t, k, k) \in Whitespace

PassesThreshold(r) == r.score >= score_threshold

\* C13: detect on an empty or whitespace-only text returns a DetectionResult
\* with no matches, total_pii_count 0 and no pii_types_found, raising nothing
\* and not asking the analyzer, whether the analyzer is loaded or not.
C13_BlankTextEmptyResult ==
    (method = "detect" /\ OnlyWhitespace(text)) =>
        /\ pc = "detected"
        /\ raised = ""
        /\ matches = <<>>
        /\ total_pii_count = 0
        /\ pii_types_found = {}

\* detect returned the empty result on a whitespace-only text, on a detector
\* without analyzer, where the recognizers had a result above the threshold.
C13_Witness ==
    /\ DetectReturned
    /\ text = "\r"
    /\ analyzer = "None"
    /\ \E k \in 1..Len(recognized) : PassesThreshold(recognized[k])
    /\ matches = <<>>
    /\ raised = ""

\* C14: detect on a text with a non-whitespace character, on a detector whose
\* analyzer is not initialised, raises RuntimeError and returns no
\* DetectionResult.
C14_RaisesWithoutAnalyzer ==
    (method = "detect" /\ ~OnlyWhitespace(text) /\ analyzer = "None") =>
        /\ pc = "failed"
        /\ raised = "RuntimeError"
        /\ matches = <<>>
        /\ total_pii_count = 0
        /\ result = NoResult

\* detect raised on "a1b" without analyzer.
C14_Witness ==
    /\ method = "detect"
    /\ text = "a1b"
    /\ analyzer = "None"
    /\ pc = "failed"
    /\ raised = "RuntimeError"

\* The recognizer result r was copied into the match list.
Returned(r) ==
    \E k \in 1..Len(matches) :
        /\ matches[k].entity_type = r.entity_type
        /\ matches[k].start = r.start
        /\ matches[k].end = r.end
        /\ matches[k].score = r.score

Candidates == {recognized[k] : k \in 1..Len(recognized)}

\* C15: among overlapping candidates that pass the threshold, only the
\* highest-scoring one is accepted: a candidate overlapped by a candidate of
\* higher score is not in the match list detect returns.
C15_HighestScoreWins ==
    DetectReturned =>
        \A a, b \in Candidates :
            (PassesThreshold(a) /\ PassesThreshold(b) /\ Overlap(a, b) /\ a.score > b.score)
                => ~Returned(b)

\* C16: every match detect returns scores at least the detector's threshold,
\* and the threshold filter keeps a result that scores exactly the threshold:
\* such a result, if it survives the removal of duplicates, is returned.
C16_ThresholdInclusive ==
    (DetectReturned /\ ~IsBlank(text)) =>
        /\ \A k \in 1..Len(matches) : matches[k].score >= score_threshold
        /\ LET unique == RemoveDuplicates(SortedForDuplicates(recognized), <<>>)
           IN  \A k \in 1..Len(unique) :
                   unique[k].score = score_threshold => Returned(unique[k])

\* detect returned a match scoring exactly the threshold and dropped a result
\* scoring below it.
C16_Witness ==
    /\ DetectReturned
    /\ \E k \in 1..Len(matches) : matches[k].score = score_threshold
    /\ \E r \in Candidates : r.score < score_threshold /\ ~Returned(r)

\* C20: of two overlapping candidates of equal score that pass the threshold,
\* the longer one is kept: the shorter one is not in the match list detect
\* returns, whichever of the two starts first.
C20_EqualScoreLongerWins ==
    DetectReturned =>
        \A a, b \in Candidates :
            (/\ PassesThreshold(a) /\ PassesThreshold(b)
             /\ Overlap(a, b)
             /\ a.score = b.score
             /\ (a.end - a.start) > (b.end - b.start))
                => ~Returned(b)

\* What detect returns on the same text and recognizer results when the
\* detector's threshold is t.
ResolvedAt(t) == SortedByStart(MatchesOf(text, AnalyzerAnalyze(recognized, t)))

SubsetOfSeq(a, b) == \A k \in 1..Len(a) : InSeq(a[k], b)

\* C11: threshold monotonicity.  For a fixed text and fixed recognizer results,
\* the matches detect returns at a threshold are among those it returns at any
\* lower threshold, and contain those it returns at any higher threshold:
\* raising the threshold never adds a match.
C11_ThresholdMonotone ==
    (DetectReturned /\ ~IsBlank(text)) =>
        \A t \in Thresholds :
            /\ t <= score_threshold => SubsetOfSeq(matches, ResolvedAt(t))
            /\ t >= score_threshold => SubsetOfSeq(ResolvedAt(t), matches)

\* detect at the threshold 0.3 returned a match and dropped a result that
\* the lower threshold lets through.
C11_Witness ==
    /\ DetectReturned
    /\ score_threshold = PassportPatternScore
    /\ matches # <<>>
    /\ Len(ResolvedAt(StateIdNumScore)) > Len(matches)

\* C21: a candidate with an empty span (start = end) is never promoted to a
\* match: when the analyzer reports one, detect fails with InvalidSpan, and no
\* DetectionResult detect returns holds a zero-width match.
C21_EmptySpanRejected ==
    /\ DetectReturned => \A k \in 1..Len(matches) : matches[k].start < matches[k].end
    /\ (/\ method = "detect"
        /\ ~OnlyWhitespace(text)
        /\ analyzer = "loaded"
        /\ \E r \in Candidates : r.start = r.end)
           => (pc = "failed" /\ raised = "InvalidSpan")

ContextsReturned == method = "detect_with_context" /\ pc = "done"

\* C23: for every dictionary detect_with_context returns, with window w >= 0:
\* context_start = max(0, start - w), context_end = min(len(text), end + w),
\* 0 <= context_start <= start <= end <= context_end <= len(text), the context
\* is text[context_start:context_end], and the matched text lies in the
\* context at offset start - context_start.
C23_ContextBounds ==
    ContextsReturned =>
        \A k \in 1..Len(result.value) :
            LET d  == result.value[k]
                w  == context_window
                cs == d.context_position.start
                ce == d.context_position.end
                st == d.position.start
                en == d.position.end
            IN  /\ cs = Max(0, st - w)
                /\ ce = Min(Len(text), en + w)
                /\ 0 <= cs /\ cs <= st /\ st <= en /\ en <= ce /\ ce <= Len(text)
                /\ d.context = SubSeq(text, cs + 1, ce)
                /\ SubSeq(d.context, st - cs + 1, st - cs + Len(d.matched_text))
                       = d.matched_text
                /\ Len(d.matched_text) = en - st

\* With window 1 on "a1b", the match "b" at [2,3) has the context "1b": the
\* window reaches back one character and is cut at the end of the text.
C23_Witness ==
    /\ ContextsReturned
    /\ context_window = 1
    /\ \E k \in 1..Len(result.value) :
          /\ result.value[k].position = [start |-> 2, end |-> 3]
          /\ result.value[k].context_position = [start |-> 1, end |-> 3]
          /\ result.value[k].context = "1b"
          /\ result.value[k].matched_text = "b"

\* C24: the DetectionResult detect returns is consistent: total_pii_count is
\* the number of matches, pii_types_found is the set of their entity types,
\* has_pii holds exactly when there is a match, and every match's text is the
\* slice of the text at its span.
C24_DetectionResultConsistent ==
    DetectReturned =>
        /\ total_pii_count = Len(matches)
        /\ pii_types_found = EntityTypesOf(matches)
        /\ has_pii(total_pii_count) <=> matches # <<>>
        /\ \A k \in 1..Len(matches) :
               matches[k].text = Slice(text, matches[k].start, matches[k].end)

\* detect returned two matches of different entity types, one of them over a
\* proper part of the text.
C24_Witness ==
    /\ DetectReturned
    /\ Len(matches) = 2
    /\ pii_types_found = {"US_PASSPORT", "STATE_ID"}
    /\ total_pii_count = 2
    /\ \E k \in 1..2 : matches[k].text = "1b"

(***************************************************************************)
(* get_replacement_mapping and anonymize_with_mapping.  A mapping is a     *)
(* Python dict: its entries in insertion order, each key once.             *)
(***************************************************************************)
Entry(original, replacement) == [original |-> original, replacement |-> replacement]

HasKey(m, key) == \E k \in 1..Len(m) : m[k].original = key

Lookup(m, key) == m[CHOOSE k \in 1..Len(m) : m[k].original = key].replacement

Keys(m) == {m[k].original : k \in 1..Len(m)}

\* The loop of get_replacement_mapping over the matches ms, from the mapping
\* m built so far: the mapping, and the generator state and calls afterwards.
RECURSIVE BuildMapping(_, _, _, _, _)
BuildMapping(ms, m, fk, shared, calls) ==
    IF ms = <<>> THEN [mapping |-> m, faker |-> fk, shared |-> shared, calls |-> calls]
    ELSE LET match == Head(ms)
             g     == GenerateOn(fk, shared, match.entity_type)
         IN  IF HasKey(m, match.text)
             THEN BuildMapping(Tail(ms), m, fk, shared, calls)
             ELSE BuildMapping(Tail(ms), Append(m, Entry(match.text, g.value)),
                               g.faker, g.shared,
                               Append(calls, Call(match.entity_type, g.value)))

\* str.replace(old, new): every non-overlapping occurrence, leftmost first;
\* an empty old matches before every character and at the end.
\* str.replace(old, new, 1): the first occurrence only.
StrReplaceFirstOnly(str, old, new) ==
    IF \E k \in 1..(Len(str) - Len(old) + 1) : SubSeq(str, k, k + Len(old) - 1) = old
    THEN LET k == CHOOSE j \in 1..(Len(str) - Len(old) + 1) :
                      /\ SubSeq(str, j, j + Len(old) - 1) = old
                      /\ \A i \in 1..(j - 1) : SubSeq(str, i, i + Len(old) - 1) # old
         IN  SubSeq(str, 1, k - 1) \o new \o SubSeq(str, k + Len(old), Len(str))
    ELSE str

RECURSIVE StrReplace(_, _, _)
StrReplace(str, old, new) ==
    IF Len(old) = 0
    THEN IF Len(str) = 0 THEN new
         ELSE new \o SubSeq(str, 1, 1)
              \o (IF Len(str) = 1 THEN new ELSE StrReplace(SubSeq(str, 2, Len(str)), old, new))
    ELSE IF Len(str) < Len(old) THEN str
    ELSE IF SubSeq(str, 1, Len(old)) = old
         THEN new \o StrReplace(SubSeq(str, Len(old) + 1, Len(str)), old, new)
         ELSE SubSeq(str, 1, 1) \o StrReplace(SubSeq(str, 2, Len(str)), old, new)

\* sorted(mapping.items(), key=lambda x: len(x[0]), reverse=True): stable.
RECURSIVE SortedByKeyLengthDesc(_)
SortedByKeyLengthDesc(m) ==
    IF m = <<>> THEN <<>>
    ELSE LET init == SortedByKeyLengthDesc(SubSeq(m, 1, Len(m) - 1))
             x    == m[Len(m)]
             n    == Cardinality({k \in 1..Len(init) :
                                     Len(init[k].original) >= Len(x.original)})
         IN  SubSeq(init, 1, n) \o <<x>> \o SubSeq(init, n + 1, Len(init))

RECURSIVE ReplaceAll(_, _)
ReplaceAll(str, entries) ==
    IF entries = <<>> THEN str
    ELSE ReplaceAll(StrReplace(str, Head(entries).original, Head(entries).replacement),
                    Tail(entries))

\* anonymize_with_mapping(text, mapping)
anonymize_with_mapping(t, m) == ReplaceAll(t, SortedByKeyLengthDesc(m))

\* get_replacement_mapping(detection_result) is called on instance 1; the
\* caller keeps the mapping it returns.
GetReplacementMapping ==
    /\ pc = "idle"
    /\ method = ""
    /\ LET b == BuildMapping(matches, <<>>, faker[1], global_random, outputs[1])
       IN  /\ mapping' = b.mapping
           /\ faker' = [faker EXCEPT ![1] = b.faker]
           /\ global_random' = b.shared
           /\ outputs' = [outputs EXCEPT ![1] = b.calls]
    /\ method' = "get_replacement_mapping"
    /\ UNCHANGED <<detectionVars, detectorVars, loopVars, pc, result, raised>>
    /\ UNCHANGED threads
    /\ UNCHANGED context_window

\* anonymize_with_mapping(text, mapping) is called with the caller's mapping:
\* the one get_replacement_mapping returned, or one the caller wrote.
AnonymizeWithMapping ==
    /\ pc = "idle"
    /\ \/ method = "get_replacement_mapping"
       \/ method = "" /\ mapping # <<>>
    /\ result' = [value |-> anonymize_with_mapping(text, mapping)]
    /\ method' = "anonymize_with_mapping"
    /\ pc' = "done"
    /\ UNCHANGED <<detectionVars, detectorVars, fakerVars, loopVars, raised, mapping>>
    /\ UNCHANGED threads
    /\ UNCHANGED context_window

(***************************************************************************)
(* SpecMapping: a mapping is taken from a DetectionResult, and the text is *)
(* then anonymized with it, or by anonymize.                               *)
(***************************************************************************)
MapTexts == {"ababa", "a a"}
MapTypes == {"PERSON", "US_SSN"}

\* The matches detect can return on t: in range, each with the text it spans.
DetectedOver(t) ==
    {PIIMatch(ty, Slice(t, sp[1], sp[2]), sp[1], sp[2], AnonScore) :
        ty \in MapTypes,
        sp \in {x \in (0..Len(t)) \X (0..Len(t)) : x[1] < x[2]}}

InitMapping ==
    /\ text \in MapTexts
    /\ \E ms \in SeqsUpTo(DetectedOver(text), MaxMapMatches) :
          /\ matches = SortedByStart(ms)
          /\ total_pii_count = Len(ms)
          /\ pii_types_found = EntityTypesOf(ms)
    /\ score_threshold = DefaultThreshold
    /\ analyzer = "None"
    /\ recognized = <<>>
    /\ LET built == PIIAnonymizerInit(TRUE, FixtureSeed, Seeded(FixtureSeed))
       IN  /\ faker = [i \in Inst |-> IF i = 1 THEN built.faker ELSE Unbuilt]
           /\ global_random = built.shared
    /\ outputs = [i \in Inst |-> <<>>]
    /\ pc = "idle"
    /\ method = ""
    /\ sorted_matches = <<>>
    /\ anonymized_text = ""
    /\ replacements = <<>>
    /\ result = NoResult
    /\ raised = ""
    /\ mapping = <<>>
    /\ threads = <<>>
    /\ context_window = DefaultContextWindow

NextMapping ==
    \/ GetReplacementMapping
    \/ AnonymizeWithMapping
    \/ CallAnonymize
    \/ LoopStep
    \/ Return

SpecMapping == InitMapping /\ [][NextMapping]_vars

\* The number of non-overlapping occurrences of sub in str.
RECURSIVE Count(_, _)
Count(str, sub) ==
    IF Len(str) < Len(sub) \/ Len(sub) = 0 THEN 0
    ELSE IF SubSeq(str, 1, Len(sub)) = sub
         THEN 1 + Count(SubSeq(str, Len(sub) + 1, Len(str)), sub)
         ELSE Count(SubSeq(str, 2, Len(str)), sub)

MatchedTexts == {matches[k].text : k \in 1..Len(matches)}

TimesMatched(key) == Cardinality({k \in 1..Len(matches) : matches[k].text = key})

MappingTaken == method \in {"get_replacement_mapping", "anonymize_with_mapping"}

\* C7: the mapping get_replacement_mapping returns has exactly one entry per
\* distinct matched text, and anonymizing with it puts the one value of a
\* substring matched at two positions at both of its occurrences.
C7_MappingConsistency ==
    /\ MappingTaken =>
          /\ Keys(mapping) = MatchedTexts
          /\ Len(mapping) = Cardinality(MatchedTexts)
    /\ (method = "anonymize_with_mapping" /\ ValidMatches(text, matches)) =>
          \A key \in MatchedTexts :
             TimesMatched(key) >= 2 =>
                Count(result.value, Lookup(mapping, key)) >= TimesMatched(key)

\* The half of C7 the code keeps: one entry per distinct matched text.
C7_OneEntryPerMatchedText ==
    MappingTaken =>
        /\ Keys(mapping) = MatchedTexts
        /\ Len(mapping) = Cardinality(MatchedTexts)

\* C8: anonymize reuses the caller's mapping: a match whose text is a key of
\* the mapping is replaced by the stored value, nothing new being generated
\* for it, and every newly chosen value is stored in the mapping.
C8_AnonymizeReusesMapping ==
    (AnonymizeDone /\ mapping # <<>>) =>
        \A k \in 1..Len(result.replacements) :
           LET rec == result.replacements[k]
           IN  /\ HasKey(mapping, rec.original_value)
               /\ Lookup(mapping, rec.original_value) = rec.replacement_value

(***************************************************************************)
(* SpecApplyMapping: anonymize_with_mapping is called on a text with a     *)
(* mapping the caller wrote, as test_anonymize_with_mapping does.          *)
(***************************************************************************)
ApplyTexts == {"abab", "cb", "John Doe and John Doe again"}
ApplyKeys == {"", "a", "b", "ab", "John Doe"}
ApplyValues == {"", "a", "x", "xy", "Jane Smith"}

\* The dicts of up to MaxMapEntries items: insertion order, keys distinct.
Mappings ==
    {m \in SeqsUpTo([original : ApplyKeys, replacement : ApplyValues], MaxMapEntries) :
        /\ m # <<>>
        /\ \A j, k \in 1..Len(m) : j # k => m[j].original # m[k].original}

InitApplyMapping ==
    /\ text \in ApplyTexts
    /\ matches = <<>>
    /\ total_pii_count = 0
    /\ pii_types_found = {}
    /\ score_threshold = DefaultThreshold
    /\ analyzer = "None"
    /\ recognized = <<>>
    /\ LET built == PIIAnonymizerInit(TRUE, FixtureSeed, Seeded(FixtureSeed))
       IN  /\ faker = [i \in Inst |-> IF i = 1 THEN built.faker ELSE Unbuilt]
           /\ global_random = built.shared
    /\ outputs = [i \in Inst |-> <<>>]
    /\ pc = "idle"
    /\ method = ""
    /\ sorted_matches = <<>>
    /\ anonymized_text = ""
    /\ replacements = <<>>
    /\ result = NoResult
    /\ raised = ""
    /\ mapping \in Mappings
    /\ threads = <<>>
    /\ context_window = DefaultContextWindow

NextApplyMapping == AnonymizeWithMapping

SpecApplyMapping == InitApplyMapping /\ [][NextApplyMapping]_vars

\* original in result: sub occurs somewhere in str.
Occurs(str, sub) ==
    \E k \in 1..(Len(str) - Len(sub) + 1) : SubSeq(str, k, k + Len(sub) - 1) = sub

MappingApplied == method = "anonymize_with_mapping"

\* C12 as stated: for every mapping, the text anonymize_with_mapping returns
\* contains no occurrence of any key of the mapping.
C12_NoKeyRemains ==
    MappingApplied => \A key \in Keys(mapping) : ~Occurs(result.value, key)

\* An occurrence of key and an occurrence of value can share a position of
\* one string: key laid over value, shifted by some offset, agrees with it
\* wherever the two lie over each other.  This is so when key occurs inside
\* value, when value occurs inside key, and when one end of value is the
\* other end of key.
CanOverlap(key, value) ==
    \E shift \in (1 - Len(value))..(Len(key) - 1) :
        \A p \in Max(1, shift + 1)..Min(Len(key), shift + Len(value)) :
            SubSeq(key, p, p) = SubSeq(value, p - shift, p - shift)

\* No key is empty, no replacement value is empty, and no key can overlap a
\* replacement value.
KeysClearOfValues(m) ==
    \A j, k \in 1..Len(m) :
        /\ m[j].original # ""
        /\ m[k].replacement # ""
        /\ ~CanOverlap(m[j].original, m[k].replacement)

\* C12, amended: when the keys and the replacement values of the mapping are
\* non-empty and no key can overlap a replacement value (no key occurs inside
\* a value, no value inside a key, and no end of a value is the other end of
\* a key), the text anonymize_with_mapping returns contains no occurrence of
\* any key.
C12_NoKeyRemainsWhenClear ==
    (MappingApplied /\ KeysClearOfValues(mapping)) =>
        \A key \in Keys(mapping) : ~Occurs(result.value, key)

\* The mapping {"John Doe": "Jane Smith"}, whose key and value share
\* characters, applied to a text that holds the key twice: both occurrences
\* are replaced and the key is gone.
C12_Witness ==
    /\ MappingApplied
    /\ KeysClearOfValues(mapping)
    /\ mapping = <<Entry("John Doe", "Jane Smith")>>
    /\ Count(text, "John Doe") = 2
    /\ result.value = "Jane Smith and Jane Smith again"
    /\ ~Occurs(result.value, "John Doe")

\* Two keys that both occurred in the text, one of them twice and inside
\* occurrences of the other, are gone from the returned text.
C12_NestedKeysGone ==
    /\ MappingApplied
    /\ KeysClearOfValues(mapping)
    /\ Len(mapping) = 2
    /\ \A key \in Keys(mapping) : Occurs(text, key)
    /\ \E key \in Keys(mapping) : Count(text, key) >= 2
    /\ \A key \in Keys(mapping) : ~Occurs(result.value, key)

\* The mappings with the entries of m in another insertion order.
Reorderings(m) ==
    {[k \in 1..Len(m) |-> m[f[k]]] :
        f \in {g \in [1..Len(m) -> 1..Len(m)] : \A i, j \in 1..Len(m) : i # j => g[i] # g[j]}}

\* A character that occurs in no text, key or value: it stands for the k-th
\* replacement value until every key has been replaced.
Mark(k) == SubSeq("0123456789", k, k)

\* The substitution in which no inserted value is read again: every key is
\* replaced by its mark, in the order anonymize_with_mapping takes the keys
\* in, and the marks are turned into the values at the end.
SimultaneousSubstitution(t, m) ==
    LET entries == SortedByKeyLengthDesc(m)
        marked  == ReplaceAll(t, [k \in 1..Len(entries) |->
                                     Entry(entries[k].original, Mark(k))])
    IN  ReplaceAll(marked, [k \in 1..Len(entries) |->
                               Entry(Mark(k), entries[k].replacement)])

\* C26: anonymize_with_mapping is a simultaneous substitution: a replacement
\* value it inserted is never rewritten by another key of the mapping, and
\* the result is the same for every insertion order of the mapping's entries.
C26_SimultaneousSubstitution ==
    MappingApplied =>
        /\ result.value = SimultaneousSubstitution(text, mapping)
        /\ \A m \in Reorderings(mapping) : anonymize_with_mapping(text, m) = result.value

(***************************************************************************)
(* SpecSeed: anonymizers are constructed, seeded or not, and asked for     *)
(* replacement values, in every order.                                     *)
(***************************************************************************)
SeedTypes == {"PERSON", "US_ITIN", "UNKNOWN_TYPE"}

\* PIIAnonymizer(seed=seed) or PIIAnonymizer() is constructed as instance i.
Construct(i, seeded, seed) ==
    /\ ~faker[i].built
    /\ LET built == PIIAnonymizerInit(seeded, seed, global_random)
       IN  /\ faker' = [faker EXCEPT ![i] = built.faker]
           /\ global_random' = built.shared
    /\ UNCHANGED <<detectionVars, detectorVars, outputs, loopVars, pc, method,
                   result, raised, mapping>>
    /\ UNCHANGED threads
    /\ UNCHANGED context_window

\* _generate_replacement(entity_type) is called on instance i.
GenerateReplacement(i, entity_type) ==
    /\ faker[i].built
    /\ Len(outputs[i]) < MaxCalls
    /\ LET g == GenerateOn(faker[i], global_random, entity_type)
       IN  /\ faker' = [faker EXCEPT ![i] = g.faker]
           /\ global_random' = g.shared
           /\ outputs' = [outputs EXCEPT ![i] = Append(@, Call(entity_type, g.value))]
    /\ UNCHANGED <<detectionVars, detectorVars, loopVars, pc, method, result,
                   raised, mapping>>
    /\ UNCHANGED threads
    /\ UNCHANGED context_window

InitSeed ==
    /\ text = ""
    /\ matches = <<>>
    /\ total_pii_count = 0
    /\ pii_types_found = {}
    /\ score_threshold = DefaultThreshold
    /\ analyzer = "None"
    /\ recognized = <<>>
    /\ faker = [i \in Inst |-> Unbuilt]
    /\ global_random \in {Seeded(e) : e \in EntropySeeds}
    /\ outputs = [i \in Inst |-> <<>>]
    /\ pc = "idle"
    /\ method = ""
    /\ sorted_matches = <<>>
    /\ anonymized_text = ""
    /\ replacements = <<>>
    /\ result = NoResult
    /\ raised = ""
    /\ mapping = <<>>
    /\ threads = <<>>
    /\ context_window = DefaultContextWindow

NextSeed ==
    \/ \E i \in Inst, seeded \in BOOLEAN, seed \in Seeds : Construct(i, seeded, seed)
    \/ \E i \in Inst, t \in SeedTypes : GenerateReplacement(i, t)

SpecSeed == InitSeed /\ [][NextSeed]_vars

\* Instance i was constructed as PIIAnonymizer(seed=seed).
SeededWith(i, seed) == faker[i].built /\ faker[i].seeded /\ faker[i].seed = seed

\* C9: two instances constructed with the same seed, asked for the same
\* entity types in the same order, return the same values, however the calls
\* on the two are interleaved.
C9_SameSeedSameSequence ==
    \A i, j \in Inst, seed \in Seeds :
        (SeededWith(i, seed) /\ SeededWith(j, seed)) =>
            \A n \in 1..Min(Len(outputs[i]), Len(outputs[j])) :
                (\A k \in 1..n : outputs[i][k].entity_type = outputs[j][k].entity_type)
                    => outputs[i][n].value = outputs[j][n].value

\* Both instances, seeded alike, gave two values each, the second unlike the
\* first.
C9_Witness ==
    /\ SeededWith(1, FixtureSeed)
    /\ SeededWith(2, FixtureSeed)
    /\ Len(outputs[1]) = 2
    /\ Len(outputs[2]) = 2
    /\ outputs[1][1].entity_type = "PERSON"
    /\ outputs[1][2].entity_type = "PERSON"
    /\ outputs[2] = outputs[1]
    /\ outputs[1][1].value # outputs[1][2].value

\* C28: constructing a new PIIAnonymizer, seeded or not, does not change the
\* sequence of replacement values another, already constructed instance
\* generates afterwards: the Random that instance draws from is, after the
\* construction, in the state it was in before.
C28_ConstructionIsolated ==
    [][\A i, j \in Inst :
          (~faker[i].built /\ faker'[i].built /\ j # i /\ faker[j].built)
              => RandomOf(faker'[j], global_random') = RandomOf(faker[j], global_random)]_vars

(***************************************************************************)
(* SpecConcurrent: two threads call anonymize on one seeded PIIAnonymizer, *)
(* each on its own DetectionResult.  The arguments and locals of a call    *)
(* are the thread's own; self.faker is the one object both calls use.  No *)
(* lock is held, so a thread can be switched out anywhere: every draw from *)
(* the generator is a step of its own, and a value that takes several      *)
(* provider calls can be built from draws that another thread's draws lie  *)
(* between.  What a thread does between two draws touches its own locals   *)
(* only and is part of the step that follows.                              *)
(***************************************************************************)
Threads == {1, 2}

ThreadTexts == <<"abcd", "wxyz">>
ThreadTypes == {"PERSON", "LOCATION", "UNKNOWN_TYPE"}

\* The matches a thread's DetectionResult can hold: two spans of its text.
ThreadMatchesOver(t) ==
    {PIIMatch(ty, Slice(t, sp[1], sp[2]), sp[1], sp[2], AnonScore) :
        ty \in ThreadTypes, sp \in {<<0, 1>>, <<2, 4>>}}

\* A thread about to call anonymize(DetectionResult(t, ms, ...)).  draws
\* holds the bits the generator call in progress has drawn so far.
Frame(t, ms) ==
    [text |-> t, matches |-> ms, total_pii_count |-> Len(ms), pc |-> "idle",
     sorted_matches |-> <<>>, anonymized_text |-> "", replacements |-> <<>>,
     draws |-> <<>>, result |-> NoResult]

\* The anonymizer both threads use: PIIAnonymizer(seed=42).
SharedAnonymizer == PIIAnonymizerInit(TRUE, FixtureSeed, Seeded(FixtureSeed))

InitConcurrent ==
    /\ text = ""
    /\ matches = <<>>
    /\ total_pii_count = 0
    /\ pii_types_found = {}
    /\ score_threshold = DefaultThreshold
    /\ analyzer = "None"
    /\ recognized = <<>>
    /\ faker = [i \in Inst |-> IF i = 1 THEN SharedAnonymizer.faker ELSE Unbuilt]
    /\ global_random = SharedAnonymizer.shared
    /\ outputs = [i \in Inst |-> <<>>]
    /\ pc = "idle"
    /\ method = ""
    /\ sorted_matches = <<>>
    /\ anonymized_text = ""
    /\ replacements = <<>>
    /\ result = NoResult
    /\ raised = ""
    /\ mapping = <<>>
    /\ \E ms1 \in SeqsUpTo(ThreadMatchesOver(ThreadTexts[1]), MaxMatches),
          ms2 \in SeqsUpTo(ThreadMatchesOver(ThreadTexts[2]), MaxMatches) :
          threads = [c \in Threads |->
                        IF c = 1 THEN Frame(ThreadTexts[1], ms1)
                        ELSE Frame(ThreadTexts[2], ms2)]
    /\ context_window = DefaultContextWindow

\* Thread c enters anonymize: the early return, or the set-up of the loop.
ThreadCallAnonymize(c) ==
    /\ threads[c].pc = "idle"
    /\ threads' = [threads EXCEPT ![c] =
          IF ~has_pii(threads[c].total_pii_count)
          THEN [@ EXCEPT !.result = EmptyResult(threads[c].text), !.pc = "done"]
          ELSE [@ EXCEPT !.sorted_matches = SortedByStartDesc(threads[c].matches),
                         !.anonymized_text = threads[c].text,
                         !.replacements = <<>>,
                         !.pc = "loop"]]
    /\ UNCHANGED <<detectionVars, detectorVars, fakerVars, loopVars, pc, method,
                   result, raised, mapping>>
    /\ UNCHANGED context_window

\* One draw on the instance's generator: its bits, and the instance's faker
\* and the shared Random after it.
DrawOn(fk, shared) ==
    LET rng == RandomOf(fk, shared)
    IN  [bits   |-> Bits(rng),
         faker  |-> IF fk.own THEN [fk EXCEPT !.rng = AdvanceBy(rng, 1)] ELSE fk,
         shared |-> IF fk.own THEN shared ELSE AdvanceBy(rng, 1)]

\* Thread c, inside _generate_replacement for the match at hand, makes the next
\* provider call of the generator: one draw from the shared generator.
ThreadDraw(c) ==
    /\ threads[c].pc = "loop"
    /\ threads[c].sorted_matches # <<>>
    /\ Len(threads[c].draws) < DrawsNeeded(Head(threads[c].sorted_matches).entity_type)
    /\ LET g == DrawOn(faker[1], global_random)
       IN  /\ faker' = [faker EXCEPT ![1] = g.faker]
           /\ global_random' = g.shared
           /\ threads' = [threads EXCEPT ![c] =
                 [@ EXCEPT !.draws = Append(threads[c].draws, g.bits)]]
    /\ UNCHANGED <<detectionVars, detectorVars, outputs, loopVars, pc, method, result,
                   raised, mapping>>
    /\ UNCHANGED context_window

\* Thread c ends one iteration of its loop: _generate_replacement returns the
\* value built from the draws made, and the text and the ledger are updated.
ThreadLoopStep(c) ==
    /\ threads[c].pc = "loop"
    /\ threads[c].sorted_matches # <<>>
    /\ Len(threads[c].draws) = DrawsNeeded(Head(threads[c].sorted_matches).entity_type)
    /\ LET match      == Head(threads[c].sorted_matches)
           fake_value == ReplacementFrom(match.entity_type, threads[c].draws)
       IN  /\ outputs' = [outputs EXCEPT ![1] = Append(@, Call(match.entity_type, fake_value))]
           /\ threads' = [threads EXCEPT ![c] =
                 [@ EXCEPT !.replacements =
                               Append(threads[c].replacements,
                                      ReplacementInfo(match, fake_value)),
                           !.anonymized_text =
                               Rewrite(threads[c].anonymized_text, match, fake_value),
                           !.sorted_matches = Tail(threads[c].sorted_matches),
                           !.draws = <<>>]]
    /\ UNCHANGED <<detectionVars, detectorVars, faker, global_random, loopVars, pc,
                   method, result, raised, mapping>>
    /\ UNCHANGED context_window

\* Thread c's loop is over: its call returns.
ThreadReturn(c) ==
    /\ threads[c].pc = "loop"
    /\ threads[c].sorted_matches = <<>>
    /\ threads' = [threads EXCEPT ![c] =
          [@ EXCEPT !.result = AnonymizationResult(threads[c].text,
                                                   threads[c].anonymized_text,
                                                   threads[c].replacements),
                    !.pc = "done"]]
    /\ UNCHANGED <<detectionVars, detectorVars, fakerVars, loopVars, pc, method,
                   result, raised, mapping>>
    /\ UNCHANGED context_window

NextConcurrent ==
    \/ \E c \in Threads : ThreadCallAnonymize(c)
    \/ \E c \in Threads : ThreadDraw(c)
    \/ \E c \in Threads : ThreadLoopStep(c)
    \/ \E c \in Threads : ThreadReturn(c)

SpecConcurrent == InitConcurrent /\ [][NextConcurrent]_vars

\* The whole loop of anonymize run without interruption from the generator
\* state (fk, shared): the working text, the ledger and the generator after.
RECURSIVE RunLoop(_, _, _, _, _)
RunLoop(working, todo, ledger, fk, shared) ==
    IF todo = <<>>
    THEN [anonymized_text |-> working, replacements |-> ledger,
          faker |-> fk, shared |-> shared]
    ELSE LET match == Head(todo)
             g     == GenerateOn(fk, shared, match.entity_type)
         IN  RunLoop(Rewrite(working, match, g.value), Tail(todo),
                     Append(ledger, ReplacementInfo(match, g.value)),
                     g.faker, g.shared)

\* One call of anonymize run alone on frame f from the generator state gen:
\* what it returns, and the generator after it.
AnonymizeAlone(f, gen) ==
    IF ~has_pii(f.total_pii_count)
    THEN [result |-> EmptyResult(f.text), faker |-> gen.faker, shared |-> gen.shared]
    ELSE LET r == RunLoop(f.text, SortedByStartDesc(f.matches), <<>>,
                          gen.faker, gen.shared)
         IN  [result |-> AnonymizationResult(f.text, r.anonymized_text, r.replacements),
              faker |-> r.faker, shared |-> r.shared]

Other(c) == CHOOSE d \in Threads : d # c

\* What thread c's call returns when the two calls run one after the other,
\* c's call first or c's call second.
SerialResults(c) ==
    {AnonymizeAlone(threads[c], SharedAnonymizer).result,
     AnonymizeAlone(threads[c], AnonymizeAlone(threads[Other(c)], SharedAnonymizer)).result}

BothReturned == \A c \in Threads : threads[c].pc = "done"

\* C18: when two anonymize calls on different texts run concurrently on one
\* seeded PIIAnonymizer, the result of each call (text and ledger) is what
\* that call returns in one of the two serial executions of the two calls.
\* It is stated here for calls whose matches do not overlap.
C18_ConcurrentCallsSerializable ==
    (BothReturned /\ \A c \in Threads : PairwiseDisjoint(threads[c].matches)) =>
        \A c \in Threads : threads[c].result \in SerialResults(c)

(***************************************************************************)
(* SpecCallerBuilt: anonymize and anonymize_text on a DetectionResult the  *)
(* caller built itself: total_pii_count is whatever the caller wrote, not  *)
(* necessarily the number of matches.                                      *)
(***************************************************************************)
CallerTexts == {"abcd"}

InitCallerBuilt ==
    /\ text \in CallerTexts
    /\ matches \in SeqsUpTo(MatchesOver(text), MaxMatches)
    /\ total_pii_count \in 0..MaxMatches
    /\ pii_types_found = EntityTypesOf(matches)
    /\ score_threshold = DefaultThreshold
    /\ analyzer = "None"
    /\ recognized = <<>>
    /\ faker = [i \in Inst |-> IF i = 1 THEN SharedAnonymizer.faker ELSE Unbuilt]
    /\ global_random = SharedAnonymizer.shared
    /\ outputs = [i \in Inst |-> <<>>]
    /\ pc = "idle"
    /\ method = ""
    /\ sorted_matches = <<>>
    /\ anonymized_text = ""
    /\ replacements = <<>>
    /\ result = NoResult
    /\ raised = ""
    /\ mapping = <<>>
    /\ threads = <<>>
    /\ context_window = DefaultContextWindow

NextCallerBuilt ==
    \/ CallAnonymize
    \/ CallAnonymizeText
    \/ LoopStep
    \/ Return

SpecCallerBuilt == InitCallerBuilt /\ [][NextCallerBuilt]_vars

\* C25: whatever total_pii_count says, anonymize replaces every match of
\* detection_result.matches: the ledger has one entry per match, and the text
\* comes back unchanged only when the match list is empty.
C25_EveryListedMatchReplaced ==
    AnonymizeDone =>
        /\ result.total_replacements = Len(matches)
        /\ Len(result.replacements) = Len(matches)
        /\ matches # <<>> => result.anonymized_text # text

\* The DetectionResult of the call: the fields anonymize reads.
GivenResult == [text |-> text, matches |-> matches, total_pii_count |-> total_pii_count]

\* C27: anonymize_text(text, matches) returns the anonymized_text anonymize
\* returns, from the same generator state, for a DetectionResult holding the
\* same text and matches.
C27_AnonymizeTextIsAnonymize ==
    AnonymizeTextDone =>
        result.value = AnonymizeAlone(GivenResult, SharedAnonymizer).result.anonymized_text

\* What holds of C27: the two agree whenever total_pii_count is positive or
\* the match list is empty, as for every DetectionResult detect returns.
C27_AgreeWhenCountConsistent ==
    (AnonymizeTextDone /\ (has_pii(total_pii_count) \/ matches = <<>>)) =>
        result.value = AnonymizeAlone(GivenResult, SharedAnonymizer).result.anonymized_text


(***************************************************************************)
(* The entity types PIIDetector supports, and the generator table.         *)
(***************************************************************************)
PRESIDIO_ENTITIES ==
    <<"PERSON", "EMAIL_ADDRESS", "PHONE_NUMBER", "US_SSN", "US_DRIVER_LICENSE",
      "CREDIT_CARD", "US_BANK_NUMBER", "US_ITIN", "IP_ADDRESS", "LOCATION",
      "DATE_TIME", "NRP", "MEDICAL_LICENSE", "URL", "IBAN_CODE">>

CUSTOM_ENTITIES ==
    <<"US_PASSPORT", "STATE_ID", "MEDICAL_RECORD", "HEALTH_INSURANCE_ID",
      "EMPLOYEE_ID", "STUDENT_ID", "MILITARY_ID", "VEHICLE_REGISTRATION",
      "LICENSE_PLATE", "CREDENTIALS", "US_ADDRESS", "DATE_OF_BIRTH",
      "MOTHERS_MAIDEN_NAME", "FINANCIAL_ACCOUNT">>

\* PIIDetector.get_supported_entities()
get_supported_entities == PRESIDIO_ENTITIES \o CUSTOM_ENTITIES

Supported == {get_supported_entities[k] : k \in 1..Len(get_supported_entities)}

(***************************************************************************)
(* SpecGenerators: an anonymizer constructed with a seed is asked for a    *)
(* replacement value for supported entity types and for one that is not.   *)
(***************************************************************************)
RequestedTypes == Supported \cup {"UNKNOWN_TYPE"}

InitGenerators ==
    /\ text = ""
    /\ matches = <<>>
    /\ total_pii_count = 0
    /\ pii_types_found = {}
    /\ score_threshold = DefaultThreshold
    /\ analyzer = "None"
    /\ recognized = <<>>
    /\ \E seed \in Seeds :
          /\ faker = [i \in Inst |->
                        IF i = 1 THEN PIIAnonymizerInit(TRUE, seed, Seeded(seed)).faker
                        ELSE Unbuilt]
          /\ global_random = Seeded(seed)
    /\ outputs = [i \in Inst |-> <<>>]
    /\ pc = "idle"
    /\ method = ""
    /\ sorted_matches = <<>>
    /\ anonymized_text = ""
    /\ replacements = <<>>
    /\ result = NoResult
    /\ raised = ""
    /\ mapping = <<>>
    /\ threads = <<>>
    /\ context_window = DefaultContextWindow

NextGenerators == \E t \in RequestedTypes : GenerateReplacement(1, t)

SpecGenerators == InitGenerators /\ [][NextGenerators]_vars

NoDuplicates(seq) == \A i, j \in 1..Len(seq) : i # j => seq[i] # seq[j]

StartsWith(s, prefix) ==
    Len(s) >= Len(prefix) /\ SubSeq(s, 1, Len(prefix)) = prefix

\* C29: no entity type is listed twice in PRESIDIO_ENTITIES + CUSTOM_ENTITIES
\* and each of them has a registered generator, so the value generated for a
\* supported type is never the "[REDACTED_<entity_type>]" fallback; the one
\* placeholder among them is that of CREDENTIALS, whose own generator
\* returns "[REDACTED_CREDENTIALS]".
C29_SupportedTypesHaveGenerators ==
    /\ NoDuplicates(get_supported_entities)
    /\ Supported \subseteq GeneratorTypes
    /\ \A i \in Inst : \A n \in 1..Len(outputs[i]) :
          LET c == outputs[i][n] IN
          c.entity_type \in Supported =>
              IF c.entity_type = "CREDENTIALS"
              THEN c.value = "[REDACTED_CREDENTIALS]"
              ELSE ~StartsWith(c.value, "[REDACTED_")

\* A value was generated for CREDENTIALS, the placeholder of its own
\* generator, and then one for NRP, which is no placeholder.
C29_Witness ==
    /\ Len(outputs[1]) = 2
    /\ outputs[1][1].entity_type = "CREDENTIALS"
    /\ outputs[1][1].value = "[REDACTED_CREDENTIALS]"
    /\ outputs[1][2].entity_type = "NRP"
    /\ outputs[1][2].value # ""
    /\ ~StartsWith(outputs[1][2].value, "[REDACTED_")

(***************************************************************************)
(* PIIType, US_PII_TYPES, PII_TYPE_MAP and PIIMatch.__post_init__.         *)
(***************************************************************************)
\* A PIIType, by the two fields that name what it stands for;
\* presidio_entity is "None" where the source leaves it unset.
PIIType(code, presidio_entity) == [code |-> code, presidio_entity |-> presidio_entity]

\* pii_type = None
NoPIIType == PIIType("None", "None")

US_PII_TYPES ==
    <<PIIType("SSN", "US_SSN"),
      PIIType("DRIVERS_LICENSE", "US_DRIVER_LICENSE"),
      PIIType("PASSPORT", "US_PASSPORT"),
      PIIType("STATE_ID", "None"),
      PIIType("ITIN", "US_ITIN"),
      PIIType("BANK_ACCOUNT", "US_BANK_NUMBER"),
      PIIType("CREDIT_CARD", "CREDIT_CARD"),
      PIIType("DEBIT_CARD", "CREDIT_CARD"),
      PIIType("FINANCIAL_ACCOUNT", "None"),
      PIIType("PERSON_NAME", "PERSON"),
      PIIType("DATE_OF_BIRTH", "DATE_TIME"),
      PIIType("PLACE_OF_BIRTH", "LOCATION"),
      PIIType("MOTHERS_MAIDEN_NAME", "None"),
      PIIType("EMAIL", "EMAIL_ADDRESS"),
      PIIType("PHONE", "PHONE_NUMBER"),
      PIIType("ADDRESS", "LOCATION"),
      PIIType("IP_ADDRESS", "IP_ADDRESS"),
      PIIType("MEDICAL_RECORD", "MEDICAL_LICENSE"),
      PIIType("HEALTH_INSURANCE_ID", "None"),
      PIIType("BIOMETRIC", "None"),
      PIIType("VEHICLE_REGISTRATION", "None"),
      PIIType("LICENSE_PLATE", "None"),
      PIIType("DIGITAL_SIGNATURE", "None"),
      PIIType("CREDENTIALS", "None"),
      PIIType("EMPLOYEE_ID", "None"),
      PIIType("STUDENT_ID", "None"),
      PIIType("MILITARY_ID", "None")>>

Codes == {US_PII_TYPES[k].code : k \in 1..Len(US_PII_TYPES)}

\* PII_TYPE_MAP = {pii.code: pii for pii in US_PII_TYPES}: for a code listed
\* more than once the last entry stays.
PII_TYPE_MAP ==
    [c \in Codes |->
        US_PII_TYPES[CHOOSE k \in 1..Len(US_PII_TYPES) :
                        /\ US_PII_TYPES[k].code = c
                        /\ \A j \in (k + 1)..Len(US_PII_TYPES) : US_PII_TYPES[j].code # c]]

\* PII_TYPE_MAP.get(key)
PII_TYPE_MAP_get(key) == IF key \in DOMAIN PII_TYPE_MAP THEN PII_TYPE_MAP[key] ELSE NoPIIType

\* The PIIMatch the dataclass constructor builds from its six arguments,
\* before __post_init__ runs.
PIIMatchWith(entity_type, matched, start, end, score, pii_type) ==
    [entity_type |-> entity_type, text |-> matched, start |-> start,
     end |-> end, score |-> score, pii_type |-> pii_type]

\* PIIMatch.__post_init__
__post_init__(self) ==
    IF self.pii_type = NoPIIType
    THEN [self EXCEPT !.pii_type = PII_TYPE_MAP_get(self.entity_type)]
    ELSE self

(***************************************************************************)
(* SpecPIIMatch: one PIIMatch is constructed, for a span of a text, with   *)
(* or without a pii_type argument.                                         *)
(***************************************************************************)
MatchTexts == {"a1b"}
MatchSpans == {<<0, 1>>, <<1, 3>>}
MatchEntityTypes == Supported \cup Codes \cup {"UNKNOWN_TYPE"}
GivenTypes == {NoPIIType, PII_TYPE_MAP_get("SSN")}

\* PIIMatch(entity_type, text[start:end], start, end, score, pii_type): the
\* arguments and the object constructed.
ConstructPIIMatch(entity_type, span, pii_type) ==
    /\ pc = "idle"
    /\ method = ""
    /\ LET given == PIIMatchWith(entity_type, Slice(text, span[1], span[2]),
                                 span[1], span[2], AnonScore, pii_type)
       IN  result' = [given |-> given, value |-> __post_init__(given)]
    /\ method' = "PIIMatch"
    /\ pc' = "done"
    /\ UNCHANGED <<detectionVars, detectorVars, fakerVars, loopVars, raised, mapping>>
    /\ UNCHANGED threads
    /\ UNCHANGED context_window

InitPIIMatch ==
    /\ text \in MatchTexts
    /\ matches = <<>>
    /\ total_pii_count = 0
    /\ pii_types_found = {}
    /\ score_threshold = DefaultThreshold
    /\ analyzer = "None"
    /\ recognized = <<>>
    /\ faker = [i \in Inst |-> Unbuilt]
    /\ global_random = Seeded(FixtureSeed)
    /\ outputs = [i \in Inst |-> <<>>]
    /\ pc = "idle"
    /\ method = ""
    /\ sorted_matches = <<>>
    /\ anonymized_text = ""
    /\ replacements = <<>>
    /\ result = NoResult
    /\ raised = ""
    /\ mapping = <<>>
    /\ threads = <<>>
    /\ context_window = DefaultContextWindow

NextPIIMatch ==
    \E entity_type \in MatchEntityTypes, span \in MatchSpans, pii_type \in GivenTypes :
        ConstructPIIMatch(entity_type, span, pii_type)

SpecPIIMatch == InitPIIMatch /\ [][NextPIIMatch]_vars

PIIMatchConstructed == pc = "done" /\ method = "PIIMatch"

\* The PIIType p stands for the entity type: it carries it as its code or as
\* its presidio_entity.
StandsFor(p, entity_type) == p.code = entity_type \/ p.presidio_entity = entity_type

\* C22: for every entity type of get_supported_entities(), a PIIMatch
\* constructed without an explicit pii_type has a pii_type that is not None
\* and that describes that entity type.
C22_SupportedTypesResolve ==
    (/\ PIIMatchConstructed
     /\ result.given.pii_type = NoPIIType
     /\ result.given.entity_type \in Supported)
        => /\ result.value.pii_type # NoPIIType
           /\ StandsFor(result.value.pii_type, result.given.entity_type)

\* What does hold: the pii_type is looked up by PIIType code, so it is set
\* exactly for the entity types that are PIIType codes, to the PIIType of
\* that code, and an explicit pii_type is kept.
C22_ResolvedByCode ==
    PIIMatchConstructed =>
        LET given == result.given
            made  == result.value
        IN  /\ (given.pii_type # NoPIIType) => made.pii_type = given.pii_type
            /\ (given.pii_type = NoPIIType /\ given.entity_type \in Codes)
                  => made.pii_type.code = given.entity_type
            /\ (given.pii_type = NoPIIType /\ given.entity_type \notin Codes)
                  => made.pii_type = NoPIIType

====
